---- MODULE Spec2Model ----
(***************************************************************************)
(* Model of healthmonitordaemon/assumption_free.py: the SAX discretizer,   *)
(* the combination catalog, the frequency counter, the bitmap builder, the *)
(* distance scorer and the two-window controller AssumptionFreeAA.detect.  *)
(*                                                                         *)
(* The module is Python 2 code (dict.values() returns lists, line 205) and  *)
(* is modelled with the semantics of Python 2 and of the numpy it was      *)
(* written for (a float shape and float indices are accepted).             *)
(*                                                                         *)
(* Numbers: datapoints are finite numbers, modelled by small integers;     *)
(* floating-point quotients are modelled by exact reduced fractions        *)
(* [num, den]; a fraction with den = 0 stands for Python's                 *)
(* ZeroDivisionError.  Strings are sequences of one-letter strings; only   *)
(* lower-case letters occur, whose order in string.ascii_letters is their  *)
(* character order.  An exception of a scoring step ends the detect call:  *)
(* raised holds its name.                                                  *)
(***************************************************************************)
EXTENDS Integers, Sequences, FiniteSets, TLC

\* ---------------------------------------------------------------- bounds
\* largest word_size of a constructed detector
MaxWordSize == 2
\* largest window_factor, lead_window_factor and lag_window_factor
MaxFactor == 2
\* number of datapoints fed to a detector, and its largest universe_size
MaxFed == 6
\* longest input of one detect call
MaxBatch == 2
\* largest universe_size of a detector whose calls are recorded
MaxCallUniverse == 4
\* largest alphabet handed to _build_combinations
MaxAlphabet == 3
\* largest combination_len handed to _build_combinations
MaxCombLen == 3
\* largest count in a frequency table handed to _build_bitmap directly
MaxCount == 2

\* the values a datapoint takes
DataValues == {0, 5}

VARIABLES
    params,           \* the constructor's arguments (history)
    _word_size,       \* self._word_size
    _window_size,     \* self._window_size
    lead_maxlen,      \* self._lead_window.maxlen
    lag_maxlen,       \* self._lag_window.maxlen
    universe_size,    \* self.universe_size
    _lead_window,     \* self._lead_window
    _lag_window,      \* self._lag_window
    pc,               \* "idle", or "loop" inside detect's for loop
    analysis_result,  \* detect's local list (kept after the return as the value returned)
    raised,           \* the exception the last detect call ended with, or "none"
    call_input,       \* the datapoints the running call has consumed (history)
    call_start,       \* the windows when the running call began (history)
    last_call,        \* input, starting windows and output of the last call that returned (history)
    fed,              \* every datapoint consumed since construction (history)
    emitted,          \* every Analysis appended since construction (history)
    returned,         \* number of Analysis records returned so far (history)
    last_step,        \* what the last iteration of the loop computed (its locals)
    call              \* a direct call of a module-level function, with its result

vars == <<params, _word_size, _window_size, lead_maxlen, lag_maxlen, universe_size,
          _lead_window, _lag_window, pc, analysis_result, raised, call_input,
          call_start, last_call, fed, emitted, returned, last_step, call>>

detector_vars == <<params, _word_size, _window_size, lead_maxlen, lag_maxlen,
                   universe_size, _lead_window, _lag_window, pc, analysis_result,
                   raised, call_input, call_start, last_call, fed, emitted, returned,
                   last_step>>

\* ------------------------------------------------------------ arithmetic
Abs(x) == IF x < 0 THEN -x ELSE x

RECURSIVE GCD(_, _)
GCD(a, b) == IF b = 0 THEN a ELSE GCD(b, a % b)

\* the number n/d (d > 0) in lowest terms
Frac(n, d) == LET g == GCD(Abs(n), Abs(d)) IN [num |-> n \div g, den |-> d \div g]

\* Python's a / b on floats: raises ZeroDivisionError (den = 0) when b is 0
TrueDiv(a, b) == IF b = 0 THEN [num |-> a, den |-> 0] ELSE Frac(a, b)

FracSub(x, y) == Frac(x.num * y.den - y.num * x.den, x.den * y.den)
FracAdd(x, y) == Frac(x.num * y.den + y.num * x.den, x.den * y.den)
FracMul(x, y) == Frac(x.num * y.num, x.den * y.den)

RECURSIVE SumSeq(_)
SumSeq(s) == IF s = <<>> THEN 0 ELSE Head(s) + SumSeq(Tail(s))

Max(S) == CHOOSE x \in S : \A y \in S : y <= x

\* floor of the square root
ISqrt(n) == CHOOSE r \in 0..n : r * r <= n /\ (r + 1) * (r + 1) > n

\* --------------------------------------------------------------- strings
\* string.ascii_letters, as far as the model reads it
ascii_letters == <<"a", "b", "c", "d", "e", "f", "g", "h">>

LetterIndex == [c \in {ascii_letters[i] : i \in 1..Len(ascii_letters)} |->
                    CHOOSE i \in 1..Len(ascii_letters) : ascii_letters[i] = c]

\* the rank of a letter in the order of characters
Ord(c) == LetterIndex[c]

\* Python's u < v on strings
RECURSIVE LexLess(_, _)
LexLess(u, v) ==
    IF v = <<>> THEN FALSE
    ELSE IF u = <<>> THEN TRUE
    ELSE IF u[1] = v[1] THEN LexLess(Tail(u), Tail(v))
    ELSE Ord(u[1]) < Ord(v[1])

LexGreater(u, v) == LexLess(v, u)

\* the elements of a set, in some order
RECURSIVE SetToSeq(_)
SetToSeq(S) ==
    IF S = {} THEN <<>>
    ELSE LET x == CHOOSE y \in S : TRUE IN Append(SetToSeq(S \ {x}), x)

\* sorted(S, reverse=reverse)
sorted(S, reverse) ==
    IF reverse THEN SortSeq(SetToSeq(S), LexGreater) ELSE SortSeq(SetToSeq(S), LexLess)

\* ------------------------------------------------------ _build_combinations
\* itertools.permutations(alphabet, r), joined: arrangements of r distinct positions
permutations(alphabet, r) ==
    { [i \in 1..r |-> alphabet[p[i]]] :
        p \in { q \in [1..r -> 1..Len(alphabet)] :
                    \A a, b \in 1..r : a # b => q[a] # q[b] } }

_build_combinations(alphabet, combination_len) ==
    permutations(alphabet, combination_len)
        \cup { <<alphabet[i], alphabet[i]>> : i \in 1..Len(alphabet) }

\* --------------------------------------------------------- _count_substr
_count_substr(stack, needle) ==
    Cardinality({ i \in 0..(Len(stack) - Len(needle)) :
                    SubSeq(stack, i + 1, i + Len(needle)) = needle })

\* ----------------------------------------------------- _count_frequencies
_count_frequencies(words, alphabet, subword_len) ==
    [ key \in _build_combinations(alphabet, subword_len) |->
        SumSeq([ w \in 1..Len(words) |-> _count_substr(words[w], key) ]) ]

\* ------------------------------------------------------------------ _sax
\* the default alphbt_size, the only one detect uses
alphbt_size == 4

\* norm.ppf(0.75)^2 = 0.4549364..., as the fraction PpfSqNum / PpfSqDen;
\* the breakpoints for alphbt_size = 4 are -norm.ppf(0.75), 0, norm.ppf(0.75), +Inf
PpfSqNum == 4549
PpfSqDen == 10000

\* breakpoints[idx] > section_mean, for the section whose mean is
\* d / (k * sqrt(V)) after scaling (0 when V = 0, i.e. std = 0):
\* d = N * (section sum) - k * (total sum), V = N * (sum of squares) - (total sum)^2
BreakpointAbove(idx, d, k, V) ==
    CASE idx = 0 -> V # 0 /\ d < 0 /\ d * d * PpfSqDen > PpfSqNum * k * k * V
      [] idx = 1 -> V # 0 /\ d < 0
      [] idx = 2 -> V = 0 \/ d <= 0 \/ d * d * PpfSqDen < PpfSqNum * k * k * V
      [] OTHER   -> TRUE

\* np.where(breakpoints > section_mean)[0][0]
section_location(d, k, V) ==
    CHOOSE idx \in 0..(alphbt_size - 1) :
        /\ BreakpointAbove(idx, d, k, V)
        /\ \A e \in 0..(idx - 1) : ~BreakpointAbove(e, d, k, V)

_sax(data, word_size) ==
    IF Len(data) % word_size # 0
    THEN [err |-> "ValueError", word |-> <<>>]
    ELSE LET N == Len(data)
             k == N \div word_size
             S == SumSeq(data)
             Q == SumSeq([i \in 1..N |-> data[i] * data[i]])
             V == N * Q - S * S
             section_sum(j) == SumSeq(SubSeq(data, (j - 1) * k + 1, j * k))
             d(j) == N * section_sum(j) - k * S
         IN  [err  |-> "none",
              word |-> [j \in 1..word_size |->
                          ascii_letters[section_location(d(j), k, V) + 1]]]

\* ---------------------------------------------------------------- _dist
RECURSIVE SumCells(_, _, _)
SumCells(mtrx_a, mtrx_b, cells) ==
    IF cells = {} THEN Frac(0, 1)
    ELSE LET c == CHOOSE x \in cells : TRUE
             diff == FracSub(mtrx_a[c[1]][c[2]], mtrx_b[c[1]][c[2]])
         IN  FracAdd(FracMul(diff, diff), SumCells(mtrx_a, mtrx_b, cells \ {c}))

_dist(mtrx_a, mtrx_b) ==
    SumCells(mtrx_a, mtrx_b, { <<i, j>> : i \in DOMAIN mtrx_a, j \in DOMAIN mtrx_a })

\* -------------------------------------------------------- _build_bitmap
\* the cell written without the test of norm_factor
BitmapCellUnguarded(value, norm_factor) == TrueDiv(value, norm_factor)

\* lines 128-131: the value written to bitmap[i, j]
BitmapCell(value, norm_factor) ==
    IF norm_factor # 0 THEN TrueDiv(value, norm_factor) ELSE Frac(value, 1)

\* line 123 with reverse=True
ordered_keys_reversed(freqs) == sorted(DOMAIN freqs, TRUE)

\* line 123
ordered_keys_of(freqs) == sorted(DOMAIN freqs, FALSE)

\* the for loop of lines 126-134; writes counts the assignments to each cell
RECURSIVE BitmapLoop(_, _, _, _, _, _, _, _)
BitmapLoop(freqs, ordered_keys, i, j, bitmap, writes, matrix_size, norm_factor) ==
    IF ordered_keys = <<>>
    THEN [err |-> "none", bitmap |-> bitmap, writes |-> writes]
    ELSE LET key  == Head(ordered_keys)
             jm   == j % matrix_size
             cell == BitmapCell(freqs[key], norm_factor)
             j1   == jm + 1
             i1   == IF j1 = matrix_size THEN i + 1 ELSE i
         IN  IF cell.den = 0
             THEN [err |-> "ZeroDivisionError", bitmap |-> bitmap, writes |-> writes]
             ELSE BitmapLoop(freqs, Tail(ordered_keys), i1, j1,
                             [bitmap EXCEPT ![i][jm] = cell],
                             [writes EXCEPT ![i][jm] = @ + 1],
                             matrix_size, norm_factor)

_build_bitmap(freqs, norm_factor) ==
    LET len == Cardinality(DOMAIN freqs)
        matrix_size == ISqrt(len)
    IN  IF matrix_size * matrix_size # len
        THEN [err |-> "ValueError", bitmap |-> <<>>, writes |-> <<>>]
        ELSE BitmapLoop(freqs, ordered_keys_of(freqs), 0, 0,
                        [i \in 0..(matrix_size - 1) |->
                            [j \in 0..(matrix_size - 1) |-> Frac(0, 1)]],
                        [i \in 0..(matrix_size - 1) |->
                            [j \in 0..(matrix_size - 1) |-> 0]],
                        matrix_size, norm_factor)

\* ----------------------------------------------------------- _get_words
\* the slices of lines 145-147
Slices(window, feature_size) ==
    [i \in 1..(Len(window) \div feature_size) |->
        SubSeq(window, (i - 1) * feature_size + 1, i * feature_size)]

RECURSIVE WordsOf(_, _)
WordsOf(slices, word_size) ==
    IF slices = <<>> THEN [err |-> "none", words |-> <<>>]
    ELSE LET w    == _sax(Head(slices), word_size)
             rest == WordsOf(Tail(slices), word_size)
         IN  IF w.err # "none" THEN [err |-> w.err, words |-> <<>>]
             ELSE IF rest.err # "none" THEN rest
             ELSE [err |-> "none", words |-> <<w.word>> \o rest.words]

_get_words(window, feature_size, word_size) ==
    WordsOf(Slices(window, feature_size), word_size)

\* ------------------------------------------------- AssumptionFreeAA.__init__
\* line 167 with + for *
window_size_sum(window_factor, word_size) == window_factor + word_size

\* line 167
window_size_of(window_factor, word_size) == window_factor * word_size

\* line 168
lead_window_size_of(lead_window_factor, window_size) == lead_window_factor * window_size

\* line 169
lag_window_size_of(lag_window_factor, window_size) == lag_window_factor * window_size

\* line 173
_recursion_level == 2

\* line 174
_alphabet == <<"a", "b", "c", "d">>

NoAnalysis == [score |-> Frac(0, 1), bitmp1 |-> <<>>, bitmp2 |-> <<>>]

\* an iteration of the loop that scores nothing
NoStep == [scored |-> FALSE, err |-> "none", analysis |-> NoAnalysis,
           lead_freqs |-> <<>>, lag_freqs |-> <<>>, norm_factor |-> 0]

NoCall == [input |-> <<>>, start |-> [lead |-> <<>>, lag |-> <<>>], output |-> <<>>,
           made |-> FALSE]

\* the detector AssumptionFreeAA(word_size, window_factor, lead_window_factor,
\* lag_window_factor) right after construction
Constructed(word_size, window_factor, lead_window_factor, lag_window_factor) ==
    LET window_size      == window_size_of(window_factor, word_size)
        lead_window_size == lead_window_size_of(lead_window_factor, window_size)
        lag_window_size  == lag_window_size_of(lag_window_factor, window_size)
    IN  /\ params = [word_size |-> word_size, window_factor |-> window_factor,
                     lead_window_factor |-> lead_window_factor,
                     lag_window_factor |-> lag_window_factor]
        /\ _word_size = word_size
        /\ _window_size = window_size
        /\ universe_size = lead_window_size + lag_window_size
        /\ lead_maxlen = lead_window_size
        /\ lag_maxlen = lag_window_size
        /\ _lead_window = <<>>
        /\ _lag_window = <<>>
        /\ pc = "idle"
        /\ analysis_result = <<>>
        /\ raised = "none"
        /\ call_input = <<>>
        /\ call_start = [lead |-> <<>>, lag |-> <<>>]
        /\ last_call = NoCall
        /\ fed = <<>>
        /\ emitted = <<>>
        /\ returned = 0
        /\ last_step = NoStep

\* the constructor's arguments: positive integers, of a detector that max_universe
\* datapoints fill
Construct(max_universe) ==
    \E word_size \in 1..MaxWordSize :
    \E window_factor, lead_window_factor, lag_window_factor \in 1..MaxFactor :
        /\ word_size * window_factor * (lead_window_factor + lag_window_factor)
              <= max_universe
        /\ Constructed(word_size, window_factor, lead_window_factor, lag_window_factor)

Init == Construct(MaxFed) /\ call = [fn |-> "none"]

\* ------------------------------------------------------------ the deques
\* list.append: no maxlen
list_append(dq, maxlen, x) == Append(dq, x)

\* deque(maxlen=maxlen).append(x): a full deque drops its oldest element
deque_append(dq, maxlen, x) ==
    IF maxlen = 0 THEN dq
    ELSE IF Len(dq) = maxlen THEN Append(Tail(dq), x)
    ELSE Append(dq, x)

\* deque.pop(): the newest element
pop(dq) == [elem |-> dq[Len(dq)], rest |-> SubSeq(dq, 1, Len(dq) - 1)]

\* deque.popleft(): the oldest element
popleft(dq) == [elem |-> Head(dq), rest |-> Tail(dq)]

\* ------------------------------------------------ the detector's methods
get_lead_words(lead_window) == _get_words(lead_window, _window_size, _word_size)

get_lag_words(lag_window) == _get_words(lag_window, _window_size, _word_size)

count_frequencies(words) == _count_frequencies(words, _alphabet, _recursion_level)

Values(freqs) == { freqs[key] : key \in DOMAIN freqs }

\* line 205
norm_factor_of(lead_freqs, lag_freqs) == Max(Values(lead_freqs) \cup Values(lag_freqs))

Failed(err, lead_freqs, lag_freqs, norm_factor) ==
    [scored |-> TRUE, err |-> err, analysis |-> NoAnalysis, lead_freqs |-> lead_freqs,
     lag_freqs |-> lag_freqs, norm_factor |-> norm_factor]

\* lines 201-212: the Analysis of one scoring step, or the exception it raises,
\* with the frequency tables and the norm_factor it computed
Scoring(lead_window, lag_window) ==
    LET lead_words == get_lead_words(lead_window)
        lag_words  == get_lag_words(lag_window)
    IN  IF lead_words.err # "none" THEN Failed(lead_words.err, <<>>, <<>>, 0)
        ELSE IF lag_words.err # "none" THEN Failed(lag_words.err, <<>>, <<>>, 0)
        ELSE
        LET lead_freqs  == count_frequencies(lead_words.words)
            lag_freqs   == count_frequencies(lag_words.words)
            norm_factor == norm_factor_of(lead_freqs, lag_freqs)
            lead_bitmap == _build_bitmap(lead_freqs, norm_factor)
            lag_bitmap  == _build_bitmap(lag_freqs, norm_factor)
        IN  IF lead_bitmap.err # "none"
            THEN Failed(lead_bitmap.err, lead_freqs, lag_freqs, norm_factor)
            ELSE IF lag_bitmap.err # "none"
            THEN Failed(lag_bitmap.err, lead_freqs, lag_freqs, norm_factor)
            ELSE
            LET dist  == _dist(lead_bitmap.bitmap, lag_bitmap.bitmap)
                shape == Cardinality(DOMAIN lead_bitmap.bitmap)
                score == Frac(dist.num, dist.den * shape * shape)
            IN  [scored |-> TRUE, err |-> "none",
                 analysis |-> [score  |-> score,
                               bitmp1 |-> lead_bitmap.bitmap,
                               bitmp2 |-> lag_bitmap.bitmap],
                 lead_freqs |-> lead_freqs, lag_freqs |-> lag_freqs,
                 norm_factor |-> norm_factor]

\* line 196 as a test for a non-empty lead window
LeadNonEmpty(lead_window) == Len(lead_window) > 0

\* line 196
LeadFull(lead_window) == Len(lead_window) = lead_maxlen

\* lines 199-200 with or for and
EitherWindowFull(lead_window, lag_window) ==
    Len(lead_window) = lead_maxlen \/ Len(lag_window) = lag_maxlen

\* lines 199-200
BothWindowsFull(lead_window, lag_window) ==
    Len(lead_window) = lead_maxlen /\ Len(lag_window) = lag_maxlen

\* a list that outlives the call
kept_result(previous) == previous

\* line 194
fresh_result(previous) == <<>>

\* ---------------------------------------------------------------- detect
\* detect is entered: line 194
Detect ==
    /\ pc = "idle"
    /\ pc' = "loop"
    /\ analysis_result' = fresh_result(analysis_result)
    /\ raised' = "none"
    /\ call_input' = <<>>
    /\ call_start' = [lead |-> _lead_window, lag |-> _lag_window]
    /\ UNCHANGED <<params, _word_size, _window_size, lead_maxlen, lag_maxlen,
                   universe_size, _lead_window, _lag_window, last_call, fed,
                   emitted, returned, last_step, call>>

\* one iteration of the for loop, lines 195-213, on the next datapoint of the input
DetectStep(datapoint) ==
    /\ pc = "loop"
    /\ Len(call_input) < MaxBatch
    /\ Len(fed) < MaxFed
    /\ LET full   == LeadFull(_lead_window)
           popped == popleft(_lead_window)
       IN  /\ _lag_window' = IF full
                             THEN deque_append(_lag_window, lag_maxlen, popped.elem)
                             ELSE _lag_window
           /\ _lead_window' = deque_append(IF full THEN popped.rest ELSE _lead_window,
                                           lead_maxlen, datapoint)
    /\ fed' = Append(fed, datapoint)
    /\ call_input' = Append(call_input, datapoint)
    /\ last_step' = IF BothWindowsFull(_lead_window', _lag_window')
                    THEN Scoring(_lead_window', _lag_window')
                    ELSE NoStep
    /\ IF last_step'.scored /\ last_step'.err # "none"
       THEN /\ raised' = last_step'.err
            /\ pc' = "idle"
            /\ UNCHANGED <<analysis_result, emitted>>
       ELSE /\ analysis_result' = IF last_step'.scored
                                  THEN Append(analysis_result, last_step'.analysis)
                                  ELSE analysis_result
            /\ emitted' = IF last_step'.scored
                          THEN Append(emitted, last_step'.analysis)
                          ELSE emitted
            /\ UNCHANGED <<raised, pc>>
    /\ UNCHANGED <<params, _word_size, _window_size, lead_maxlen, lag_maxlen,
                   universe_size, call_start, last_call, returned, call>>

\* the input is exhausted: line 214 (record: the call enters the history of calls)
Return(record) ==
    /\ pc = "loop"
    /\ pc' = "idle"
    /\ last_call' = IF record
                    THEN [input |-> call_input, start |-> call_start,
                          output |-> analysis_result, made |-> TRUE]
                    ELSE last_call
    /\ returned' = returned + Len(analysis_result)
    /\ UNCHANGED <<params, _word_size, _window_size, lead_maxlen, lag_maxlen,
                   universe_size, _lead_window, _lag_window, analysis_result, raised,
                   call_input, call_start, fed, emitted, last_step, call>>

DetectReturn == Return(FALSE)

DetectReturnRecorded == Return(TRUE)

Next ==
    \/ Detect
    \/ \E datapoint \in DataValues : DetectStep(datapoint)
    \/ DetectReturn

\* a detector fed any datapoints over any number of detect calls
Spec == Init /\ [][Next]_vars

InitCalls == Construct(MaxCallUniverse) /\ call = [fn |-> "none"]

NextCalls ==
    \/ Detect
    \/ \E datapoint \in DataValues : DetectStep(datapoint)
    \/ DetectReturnRecorded

\* the same, for the smaller detectors, with the last call that returned remembered
SpecCalls == InitCalls /\ [][NextCalls]_vars

\* ------------------------------------------- the module-level functions
\* alphabets: the arrangements of distinct letters among the first MaxAlphabet
Alphabets ==
    UNION { permutations(SubSeq(ascii_letters, 1, MaxAlphabet), n) : n \in 1..MaxAlphabet }

\* key sets of frequency tables: catalogs, of square and of other sizes
KeySets ==
    { _build_combinations(SubSeq(ascii_letters, 1, n), len) :
        n \in 1..MaxAlphabet, len \in 1..MaxCombLen }

InitFn == Constructed(1, 1, 1, 1) /\ call = [fn |-> "none"]

BuildCombinationsCall ==
    /\ call.fn = "none"
    /\ \E alphabet \in Alphabets, combination_len \in 1..MaxCombLen :
          call' = [fn |-> "_build_combinations", alphabet |-> alphabet,
                   combination_len |-> combination_len,
                   ret |-> _build_combinations(alphabet, combination_len)]
    /\ UNCHANGED detector_vars

BuildBitmapCall ==
    /\ call.fn = "none"
    /\ \E keys \in KeySets :
       \E k1, k2 \in keys :
       \E v1, v2, norm_factor \in 0..MaxCount :
          LET freqs == [k \in keys |-> IF k = k1 THEN v1 ELSE IF k = k2 THEN v2 ELSE 0]
          IN  call' = [fn |-> "_build_bitmap", freqs |-> freqs,
                       norm_factor |-> norm_factor,
                       ret |-> _build_bitmap(freqs, norm_factor)]
    /\ UNCHANGED detector_vars

NextFn == BuildCombinationsCall \/ BuildBitmapCall

\* _build_combinations and _build_bitmap called directly
SpecFn == InitFn /\ [][NextFn]_vars

\* ============================================================== claims
\* the sizes the constructor's arguments stand for
WindowSize == params.word_size * params.window_factor
LeadCapacity == params.lead_window_factor * WindowSize
LagCapacity == params.lag_window_factor * WindowSize
UniverseSize == LeadCapacity + LagCapacity

Min(a, b) == IF a < b THEN a ELSE b

\* the k most recent datapoints, in arrival order
Recent(k) == SubSeq(fed, Len(fed) - k + 1, Len(fed))

Active == Len(_lead_window) = lead_maxlen /\ Len(_lag_window) = lag_maxlen
LeadFullLagFilling == Len(_lead_window) = lead_maxlen /\ Len(_lag_window) < lag_maxlen
WarmUp == Len(_lead_window) < lead_maxlen

IsSquare(n) == ISqrt(n) * ISqrt(n) = n

\* u < v in the lexicographic order of strings, by the first position where they differ
LexBefore(u, v) ==
    \E i \in 1..Len(v) :
        /\ \A j \in 1..(i - 1) : j <= Len(u) /\ u[j] = v[j]
        /\ \/ i = Len(u) + 1
           \/ i <= Len(u) /\ Ord(u[i]) < Ord(v[i])

RECURSIVE Concat(_)
Concat(ss) == IF ss = <<>> THEN <<>> ELSE Head(ss) \o Concat(Tail(ss))

\* C1: after n datapoints, fed over any number of detect calls, the detector has
\* produced 0 Analysis records when n < universe_size and n - universe_size + 1
\* otherwise, and every one of them is returned by the call that produced it.
C1_AnalysisCount ==
    LET n        == Len(fed)
        expected == IF n < UniverseSize THEN 0 ELSE n - UniverseSize + 1
    IN  /\ raised = "none"
        /\ Len(emitted) = expected
        /\ returned + (IF pc = "loop" THEN Len(analysis_result) ELSE 0) = expected

C1_Witness ==
    /\ pc = "idle"
    /\ Len(fed) = UniverseSize + 2
    /\ returned = 3

\* C2: on a constant series of 5.0 every emitted Analysis has score 0, the lead
\* bitmap and the lag bitmap being identical.
C2_ConstantSeriesScoresZero ==
    (\A i \in 1..Len(fed) : fed[i] = 5)
        => \A i \in 1..Len(emitted) :
              /\ emitted[i].score.num = 0
              /\ emitted[i].bitmp1 = emitted[i].bitmp2

\* C3: neither window is ever longer than its capacity, and the capacities are the
\* ones fixed at construction, lead_window_factor * window_size and
\* lag_window_factor * window_size.
C3_WindowsWithinCapacity ==
    /\ Len(_lead_window) <= lead_maxlen
    /\ Len(_lag_window) <= lag_maxlen
    /\ lead_maxlen = LeadCapacity
    /\ lag_maxlen = LagCapacity

C3_Witness ==
    /\ Len(fed) > UniverseSize
    /\ Len(_lead_window) = LeadCapacity
    /\ Len(_lag_window) = LagCapacity
    /\ LeadCapacity > 1

\* C4: the controller only moves forward, WARMUP -> LEAD_FULL_LAG_FILLING -> ACTIVE:
\* the lag window receives nothing while the lead window is not full, a full lead
\* window is full again after every step, and an ACTIVE controller stays ACTIVE.
C4_ForwardOnly ==
    [][ /\ WarmUp => _lag_window' = _lag_window
        /\ WarmUp => (WarmUp \/ LeadFullLagFilling \/ Active)'
        /\ Len(_lead_window) = lead_maxlen => Len(_lead_window') = lead_maxlen
        /\ LeadFullLagFilling => (LeadFullLagFilling \/ Active)'
        /\ Active => Active' ]_vars

C4_Witness ==
    /\ Active
    /\ Len(fed) > UniverseSize
    /\ LagCapacity > 1

\* C5 as stated: a detect call that is given the input of the last call returns the
\* output of the last call, whatever the instance was fed before.  (analysis_result
\* in the loop is what the call returns when its input ends here.)
C5_SameInputSameOutput ==
    (pc = "loop" /\ last_call.made /\ call_input = last_call.input)
        => analysis_result = last_call.output

\* C5 amended: a detect call that is given the input of the last call and starts
\* from the window contents the last call started from returns the output of the
\* last call.
C5_SameInputSameWindowsSameOutput ==
    (pc = "loop" /\ last_call.made /\ call_input = last_call.input
        /\ call_start = last_call.start)
        => analysis_result = last_call.output

C5_Witness ==
    /\ pc = "loop"
    /\ last_call.made
    /\ call_input = last_call.input
    /\ call_start = last_call.start
    /\ call_input # <<>>
    /\ analysis_result # <<>>
    /\ analysis_result = last_call.output

\* the ordered arrangements of L distinct symbols of an alphabet
Arrangements(alphabet, L) ==
    LET symbols == { alphabet[i] : i \in 1..Len(alphabet) }
    IN  { w \in [1..L -> symbols] : \A a, b \in 1..L : a # b => w[a] # w[b] }

\* the L-fold repetitions of each symbol of an alphabet
Repetitions(alphabet, L) ==
    { [i \in 1..L |-> alphabet[c]] : c \in 1..Len(alphabet) }

\* C6: for an alphabet of n distinct symbols and any L >= 1, _build_combinations
\* returns the arrangements of L distinct symbols together with the L-fold
\* repetitions of each symbol; every entry has length L, and there are n^2 for L = 2.
C6_CatalogOfLengthL ==
    call.fn = "_build_combinations" =>
        /\ call.ret = Arrangements(call.alphabet, call.combination_len)
                        \cup Repetitions(call.alphabet, call.combination_len)
        /\ \A entry \in call.ret : Len(entry) = call.combination_len
        /\ call.combination_len = 2 =>
              Cardinality(call.ret) = Len(call.alphabet) * Len(call.alphabet)

AllZero(freqs) == \A key \in DOMAIN freqs : freqs[key] = 0

\* the bitmap of an all-zero table of 16 keys, built from the raw counts
RawZeroBitmap == [i \in 0..3 |-> [j \in 0..3 |-> [num |-> 0, den |-> 1]]]

\* C7: a scoring step whose two frequency tables are all zero has norm_factor 0,
\* divides by nothing, builds both bitmaps from the raw counts and produces its
\* Analysis.
C7_DegenerateNormalization ==
    (last_step.scored /\ AllZero(last_step.lead_freqs) /\ AllZero(last_step.lag_freqs))
        => /\ last_step.norm_factor = 0
           /\ raised = "none"
           /\ Len(emitted) = Len(fed) - UniverseSize + 1
           /\ emitted[Len(emitted)] =
                 [score |-> [num |-> 0, den |-> 1],
                  bitmp1 |-> RawZeroBitmap, bitmp2 |-> RawZeroBitmap]

C7_Witness ==
    /\ last_step.scored
    /\ AllZero(last_step.lead_freqs)
    /\ AllZero(last_step.lag_freqs)
    /\ Cardinality(DOMAIN last_step.lead_freqs) = 16
    /\ Len(emitted) = 2
    /\ \E i \in 1..Len(fed) : fed[i] # fed[1]

C9_NoInvalidInput ==
    /\ raised # "ValueError"
    /\ (Active /\ fed # <<>>) =>
          /\ last_step.scored
          /\ \A window \in {_lead_window, _lag_window} :
                LET slices == Slices(window, _window_size)
                IN  /\ \A i \in 1..Len(slices) :
                          /\ Len(slices[i]) = WindowSize
                          /\ Len(slices[i]) % params.word_size = 0
                    /\ Concat(slices) = window
          /\ IsSquare(Cardinality(DOMAIN last_step.lead_freqs))
          /\ IsSquare(Cardinality(DOMAIN last_step.lag_freqs))

C9_Witness ==
    /\ Active
    /\ last_step.scored
    /\ params.word_size = 2
    /\ Len(Slices(_lag_window, _window_size)) = 2
    /\ Len(emitted) = 1
    /\ emitted[1].score.num # 0

\* C10: after n datapoints the lag window followed by the lead window is the most
\* recent min(n, universe_size) datapoints in arrival order, and the lead window is
\* the most recent min(n, lead_capacity) of them.
C10_WindowsAreRecentDatapoints ==
    /\ _lag_window \o _lead_window = Recent(Min(Len(fed), UniverseSize))
    /\ _lead_window = Recent(Min(Len(fed), LeadCapacity))

C10_Witness ==
    /\ Len(fed) > UniverseSize
    /\ LeadCapacity > 1
    /\ fed[Len(fed) - UniverseSize] # Head(_lag_window)
    /\ Head(_lead_window) # _lead_window[Len(_lead_window)]

====
